---- MODULE Spec2Model ----
(***************************************************************************)
(* WireDeck: the WireGuard .conf parser and serializer (wireguard.rs) and  *)
(* the peer commands built on them (lib.rs).                               *)
(*                                                                         *)
(* A text is a sequence of symbols.  A symbol is one character, except that*)
(* a run of ordinary letters which no operation ever has to split (a key   *)
(* word such as PrivateKey, an opaque value such as k1) is kept as one     *)
(* symbol.  Whitespace, line ends, '#', '[', ']', '=', '+', '-' and the    *)
(* digits are always single symbols, so trimming, prefix tests, splitting  *)
(* and number parsing act here as they act on the characters.              *)
(***************************************************************************)
EXTENDS Integers, Sequences, FiniteSets, TLC

\* ------------------------------------------------------------------ bounds
\* most peers (closed or open) one parsed input may hold
MaxPeers == 2
\* most command invocations in one run of the store
MaxCalls == 2
\* most peers of the input that is parsed twice, with and without one more line
MaxTwinPeers == 1
\* lines in an input whose whole text is kept
MaxLines == 5

\* ------------------------------------------------------- program constants
\* the default listen port
DEFAULT_LISTEN_PORT == 51820
\* largest value of a u16 field
U16_MAX == 65535

\* ---------------------------------------------------------------- Option<T>
None == <<>>
Some(v) == <<v>>

\* ------------------------------------------------------------ str helpers
NL == "\n"
CR == "\r"
WhiteSpace == {" ", "\t", CR, NL}
DigitSeq == <<"0", "1", "2", "3", "4", "5", "6", "7", "8", "9">>
Digits == {DigitSeq[i] : i \in 1..10}

starts_with(s, c) == Len(s) > 0 /\ s[1] = c
ends_with(s, c) == Len(s) > 0 /\ s[Len(s)] = c

\* str::trim_start_matches / trim_end_matches / trim_matches for a set of chars
RECURSIVE trim_start_set(_, _)
trim_start_set(s, cs) ==
    IF Len(s) > 0 /\ s[1] \in cs THEN trim_start_set(Tail(s), cs) ELSE s

RECURSIVE trim_end_set(_, _)
trim_end_set(s, cs) ==
    IF Len(s) > 0 /\ s[Len(s)] \in cs
    THEN trim_end_set(SubSeq(s, 1, Len(s) - 1), cs) ELSE s

trim_matches(s, cs) == trim_end_set(trim_start_set(s, cs), cs)

\* str::trim
trim(s) == trim_matches(s, WhiteSpace)

\* index of the first occurrence of c in s, 0 when there is none
RECURSIVE FindFrom(_, _, _)
FindFrom(s, c, i) ==
    IF i > Len(s) THEN 0 ELSE IF s[i] = c THEN i ELSE FindFrom(s, c, i + 1)

\* str::split_once: the text before and after the first c
split_once(s, c) ==
    LET i == FindFrom(s, c, 1)
    IN  IF i = 0 THEN None
        ELSE Some(<<SubSeq(s, 1, i - 1), SubSeq(s, i + 1, Len(s))>>)

\* str::lines: split at "\n", a "\r" right before the "\n" belongs to the line
\* end, a final line end adds no empty line
RECURSIVE lines(_)
lines(text) ==
    IF text = <<>> THEN <<>>
    ELSE LET i == FindFrom(text, NL, 1)
         IN  IF i = 0 THEN <<text>>
             ELSE LET raw == SubSeq(text, 1, i - 1)
                      l == IF ends_with(raw, CR)
                           THEN SubSeq(raw, 1, Len(raw) - 1) ELSE raw
                  IN  <<l>> \o lines(SubSeq(text, i + 1, Len(text)))

\* the value of a digit symbol
DigitVal(c) == (CHOOSE i \in 1..10 : DigitSeq[i] = c) - 1

RECURSIVE DigitsValue(_, _)
DigitsValue(s, acc) ==
    IF s = <<>> THEN acc ELSE DigitsValue(Tail(s), acc * 10 + DigitVal(s[1]))

\* str::parse::<u16>: an optional '+', then one or more digits, at most 65535
parse_u16(s) ==
    LET ds == IF Len(s) > 1 /\ s[1] = "+" THEN Tail(s) ELSE s
    IN  IF ds = <<>> \/ \E i \in 1..Len(ds) : ds[i] \notin Digits THEN None
        ELSE IF DigitsValue(ds, 0) > U16_MAX THEN None
        ELSE Some(DigitsValue(ds, 0))

\* Display for u16: decimal digits, no sign, no leading zero
RECURSIVE format_u16(_)
format_u16(n) ==
    IF n < 10 THEN <<DigitSeq[n + 1]>>
    ELSE format_u16(n \div 10) \o <<DigitSeq[(n % 10) + 1]>>

\* ------------------------------------------------------------- data model
NewInterface ==
    [private_key |-> <<>>, address |-> <<>>, listen_port |-> DEFAULT_LISTEN_PORT,
     dns |-> None, post_up |-> None, post_down |-> None]

NewPeer(comment) ==
    [public_key |-> <<>>, allowed_ips |-> <<>>, persistent_keepalive |-> None,
     endpoint |-> None, name |-> comment]

WgConfig(name, path, interface, peers) ==
    [name |-> name, path |-> path, interface |-> interface, peers |-> peers]

Ok(v) == [ok |-> TRUE, value |-> v]
Err(e) == [ok |-> FALSE, error |-> e]

\* ------------------------------------------------- parse_config_content
\* the locals of parse_config_content before the first line
ParseStart ==
    [interface |-> None, peers |-> <<>>, current_section |-> <<>>,
     current_peer |-> None, last_comment |-> None]

IsBlank(raw) == trim(raw) = <<>>
IsComment(raw) == starts_with(trim(raw), "#")
IsSection(raw) ==
    /\ ~IsBlank(raw) /\ ~IsComment(raw)
    /\ starts_with(trim(raw), "[") /\ ends_with(trim(raw), "]")
SectionName(raw) == trim_matches(trim(raw), {"[", "]"})
IsKeyValue(raw) ==
    /\ ~IsBlank(raw) /\ ~IsComment(raw) /\ ~IsSection(raw)
    /\ split_once(trim(raw), "=") # None

\* SetInterfaceKey with a ListenPort that keeps the old port when the value
\* does not parse
SetInterfaceKeyKeep(iface, key, value) ==
    IF key = <<"PrivateKey">> THEN [iface EXCEPT !.private_key = value]
    ELSE IF key = <<"Address">> THEN [iface EXCEPT !.address = value]
    ELSE IF key = <<"ListenPort">> THEN
        [iface EXCEPT !.listen_port =
            IF parse_u16(value) = None THEN @ ELSE parse_u16(value)[1]]
    ELSE IF key = <<"DNS">> THEN [iface EXCEPT !.dns = Some(value)]
    ELSE IF key = <<"PostUp">> THEN [iface EXCEPT !.post_up = Some(value)]
    ELSE IF key = <<"PostDown">> THEN [iface EXCEPT !.post_down = Some(value)]
    ELSE iface

\* the Interface arm of the key match
SetInterfaceKey(iface, key, value) ==
    IF key = <<"PrivateKey">> THEN [iface EXCEPT !.private_key = value]
    ELSE IF key = <<"Address">> THEN [iface EXCEPT !.address = value]
    ELSE IF key = <<"ListenPort">> THEN
        [iface EXCEPT !.listen_port =
            IF parse_u16(value) = None THEN DEFAULT_LISTEN_PORT
            ELSE parse_u16(value)[1]]
    ELSE IF key = <<"DNS">> THEN [iface EXCEPT !.dns = Some(value)]
    ELSE IF key = <<"PostUp">> THEN [iface EXCEPT !.post_up = Some(value)]
    ELSE IF key = <<"PostDown">> THEN [iface EXCEPT !.post_down = Some(value)]
    ELSE iface

\* SetPeerKey whose last arm takes every remaining key for Endpoint
SetPeerKeyNoDefault(peer, key, value) ==
    IF key = <<"PublicKey">> THEN [peer EXCEPT !.public_key = value]
    ELSE IF key = <<"AllowedIPs">> THEN [peer EXCEPT !.allowed_ips = value]
    ELSE IF key = <<"PersistentKeepalive">> THEN
        [peer EXCEPT !.persistent_keepalive = parse_u16(value)]
    ELSE [peer EXCEPT !.endpoint = Some(value)]

\* the Peer arm of the key match
SetPeerKey(peer, key, value) ==
    IF key = <<"PublicKey">> THEN [peer EXCEPT !.public_key = value]
    ELSE IF key = <<"AllowedIPs">> THEN [peer EXCEPT !.allowed_ips = value]
    ELSE IF key = <<"PersistentKeepalive">> THEN
        [peer EXCEPT !.persistent_keepalive = parse_u16(value)]
    ELSE IF key = <<"Endpoint">> THEN [peer EXCEPT !.endpoint = Some(value)]
    ELSE peer

\* a comment line: remember it as the pending comment
OnComment(st, line) ==
    [st EXCEPT !.last_comment = Some(trim(trim_start_set(line, {"#"})))]

\* OnSection that creates the Interface record at the [Interface] header
OnSectionEager(st, line) ==
    LET closed == IF st.current_peer # None
                  THEN Append(st.peers, st.current_peer[1]) ELSE st.peers
        section == trim_matches(line, {"[", "]"})
    IN  IF section = <<"Peer">>
        THEN [st EXCEPT !.peers = closed, !.current_section = section,
                        !.current_peer = Some(NewPeer(st.last_comment)),
                        !.last_comment = None]
        ELSE [st EXCEPT !.peers = closed, !.current_section = section,
                        !.current_peer = None,
                        !.interface = IF section = <<"Interface">> /\ @ = None
                                      THEN Some(NewInterface) ELSE @]

\* OnSection that starts a fresh Interface at every [Interface] header
OnSectionReset(st, line) ==
    LET closed == IF st.current_peer # None
                  THEN Append(st.peers, st.current_peer[1]) ELSE st.peers
        section == trim_matches(line, {"[", "]"})
    IN  IF section = <<"Peer">>
        THEN [st EXCEPT !.peers = closed, !.current_section = section,
                        !.current_peer = Some(NewPeer(st.last_comment)),
                        !.last_comment = None]
        ELSE [st EXCEPT !.peers = closed, !.current_section = section,
                        !.current_peer = None,
                        !.interface = IF section = <<"Interface">>
                                      THEN None ELSE @]

\* OnSection that leaves the pending comment in place at a [Peer] header
OnSectionKeepComment(st, line) ==
    LET closed == IF st.current_peer # None
                  THEN Append(st.peers, st.current_peer[1]) ELSE st.peers
        section == trim_matches(line, {"[", "]"})
    IN  IF section = <<"Peer">>
        THEN [st EXCEPT !.peers = closed, !.current_section = section,
                        !.current_peer = Some(NewPeer(st.last_comment))]
        ELSE [st EXCEPT !.peers = closed, !.current_section = section,
                        !.current_peer = None]

\* a section header: close the open peer, switch section, open a peer on [Peer]
OnSection(st, line) ==
    LET closed == IF st.current_peer # None
                  THEN Append(st.peers, st.current_peer[1]) ELSE st.peers
        section == trim_matches(line, {"[", "]"})
    IN  IF section = <<"Peer">>
        THEN [st EXCEPT !.peers = closed, !.current_section = section,
                        !.current_peer = Some(NewPeer(st.last_comment)),
                        !.last_comment = None]
        ELSE [st EXCEPT !.peers = closed, !.current_section = section,
                        !.current_peer = None]

\* OnKeyValue that takes a line outside [Peer] for an Interface line
OnKeyValueAnywhere(st, key, value) ==
    IF st.current_section = <<"Peer">> THEN
        IF st.current_peer # None
        THEN [st EXCEPT !.current_peer = Some(SetPeerKey(st.current_peer[1], key, value))]
        ELSE st
    ELSE
        LET iface == IF st.interface = None THEN NewInterface ELSE st.interface[1]
        IN  [st EXCEPT !.interface = Some(SetInterfaceKey(iface, key, value))]

\* a key = value line, dispatched on the current section
OnKeyValue(st, key, value) ==
    IF st.current_section = <<"Interface">> THEN
        LET iface == IF st.interface = None THEN NewInterface ELSE st.interface[1]
        IN  [st EXCEPT !.interface = Some(SetInterfaceKey(iface, key, value))]
    ELSE IF st.current_section = <<"Peer">> THEN
        IF st.current_peer # None
        THEN [st EXCEPT !.current_peer = Some(SetPeerKey(st.current_peer[1], key, value))]
        ELSE st
    ELSE st

\* one iteration of the loop over content.lines()
ParseLine(st, raw) ==
    LET line == trim(raw)
    IN  IF line = <<>> THEN st
        ELSE IF starts_with(line, "#") THEN OnComment(st, line)
        ELSE IF starts_with(line, "[") /\ ends_with(line, "]") THEN OnSection(st, line)
        ELSE LET kv == split_once(line, "=")
             IN  IF kv = None THEN st
                 ELSE OnKeyValue(st, trim(kv[1][1]), trim(kv[1][2]))

\* ParseFinish that leaves the peer still open at end of input out
ParseFinishDropOpen(st, name, path) ==
    IF st.interface = None THEN Err("Parse")
    ELSE Ok(WgConfig(name, path, st.interface[1], st.peers))

\* after the loop: close the last peer, require the interface
ParseFinish(st, name, path) ==
    LET peers == IF st.current_peer # None
                 THEN Append(st.peers, st.current_peer[1]) ELSE st.peers
    IN  IF st.interface = None THEN Err("Parse")
        ELSE Ok(WgConfig(name, path, st.interface[1], peers))

RECURSIVE ParseLines(_, _)
ParseLines(st, ls) ==
    IF ls = <<>> THEN st ELSE ParseLines(ParseLine(st, Head(ls)), Tail(ls))

parse_config_content(name, path, content) ==
    ParseFinish(ParseLines(ParseStart, lines(content)), name, path)

\* ------------------------------------------------------- serialize_config
\* format!("{} = {}\n", key, value)
KeyLine(key, value) == <<key, " ", "=", " ">> \o value \o <<NL>>

\* OptLine that writes the key with an empty value when the field is absent
OptLineAlways(key, opt) == IF opt = None THEN KeyLine(key, <<>>) ELSE KeyLine(key, opt[1])

\* if let Some(ref v) = field { format!("{} = {}\n", key, v) }
OptLine(key, opt) == IF opt = None THEN <<>> ELSE KeyLine(key, opt[1])

\* serialize_peer with the name comment written below the [Peer] header
serialize_peer_comment_below(peer) ==
    <<NL>>
    \o <<"[", "Peer", "]", NL>>
    \o (IF peer.name = None THEN <<>> ELSE <<"#", " ">> \o peer.name[1] \o <<NL>>)
    \o KeyLine("PublicKey", peer.public_key)
    \o KeyLine("AllowedIPs", peer.allowed_ips)
    \o (IF peer.persistent_keepalive = None THEN <<>>
        ELSE KeyLine("PersistentKeepalive", format_u16(peer.persistent_keepalive[1])))
    \o OptLine("Endpoint", peer.endpoint)

serialize_peer(peer) ==
    <<NL>>
    \o (IF peer.name = None THEN <<>> ELSE <<"#", " ">> \o peer.name[1] \o <<NL>>)
    \o <<"[", "Peer", "]", NL>>
    \o KeyLine("PublicKey", peer.public_key)
    \o KeyLine("AllowedIPs", peer.allowed_ips)
    \o (IF peer.persistent_keepalive = None THEN <<>>
        ELSE KeyLine("PersistentKeepalive", format_u16(peer.persistent_keepalive[1])))
    \o OptLine("Endpoint", peer.endpoint)

RECURSIVE serialize_peers(_)
serialize_peers(peers) ==
    IF peers = <<>> THEN <<>>
    ELSE serialize_peer(Head(peers)) \o serialize_peers(Tail(peers))

serialize_config(config) ==
    <<"[", "Interface", "]", NL>>
    \o KeyLine("PrivateKey", config.interface.private_key)
    \o KeyLine("Address", config.interface.address)
    \o KeyLine("ListenPort", format_u16(config.interface.listen_port))
    \o OptLine("DNS", config.interface.dns)
    \o OptLine("PostUp", config.interface.post_up)
    \o OptLine("PostDown", config.interface.post_down)
    \o serialize_peers(config.peers)


\* --------------------------------------------------------------- the state
VARIABLES
    pst,        \* parse_config_content: the locals after the lines read so far
    hdr_ctx,    \* history: "start", or what came last of a comment line
                \* ("comment") and a section header other than [Peer] ("nonpeer")
    iface_kv,   \* history: a key = value line was read in section Interface
    lenient,    \* history: "no", or the numeric key of the line read last when
                \* that line gave it a value that is no u16, in the key's section
    pst2,       \* the same parse over the same lines plus one inserted line
    ins,        \* "no", or the section the extra line was inserted in
    file,       \* the config file: None while it does not exist, else its text
    bak,        \* the sibling .conf.bak file, likewise
    pc,         \* per caller: "idle", or where it stands inside save_config
    op,         \* per caller: the command it runs or ran last, with its arguments
    cfg,        \* per caller: its local config, None before it has one
    ret,        \* per caller: "none", "Ok", or the error its last command returned
    calls,      \* per caller: the commands it has invoked
    snap,       \* per caller: the text parse_config read for the command
    quiet,      \* history, per caller: no other caller has written the file
                \* since this caller's save_config tested path.exists()
    race,       \* history: "none"; "open" once a mutating caller wrote while the
                \* other had read and not yet written; "closed" once that one wrote too
    last_writer, \* history: the caller whose fs::write came last, 0 before any
    input,      \* history: the lines the parse has read, in order
    pool        \* the family of inputs the run draws from

pvars == <<pst, hdr_ctx, iface_kv, lenient>>
tvars == <<pst2, ins>>
svars == <<file, bak, pc, op, cfg, ret, calls, snap, quiet, race, last_writer>>
xvars == <<input, pool>>
vars == <<pst, hdr_ctx, iface_kv, lenient, pst2, ins,
          file, bak, pc, op, cfg, ret, calls, snap, quiet, race, last_writer,
          input, pool>>

\* name and path of the one config file
CfgName == <<"wg0">>
CfgPath == <<"wg0", ".", "conf">>

\* --------------------------------------------------------- the input lines
CommentLines ==
    { <<"#", " ", "alice">>,
      <<" ", "#", "#", "bob", " ">> }
SectionLines ==
    { <<"[", "Interface", "]">>,
      <<"[", "Peer", "]", " ">>,
      <<"[", "Foo", "]">> }
UnknownKeyLines ==
    { <<"Foo", " ", "=", " ", "bar">> }
KeyValueLines ==
    { <<"PrivateKey", "=", "a", "=", "b">>,
      <<"PrivateKey", " ", "=">>,
      <<"ListenPort", " ", "=", " ", "6", "5", "5", "3", "5">>,
      <<"ListenPort", " ", "=", " ", "6", "5", "5", "3", "6">>,
      <<"ListenPort", " ", "=", " ", "abc">>,
      <<"DNS", " ", "=", " ", "dns1">>,
      <<"PublicKey", " ", "=", " ", "k1">>,
      <<"PersistentKeepalive", " ", "=", " ", "2", "5">>,
      <<"PersistentKeepalive", " ", "=", " ", "-", "1">> }
    \cup UnknownKeyLines
OtherLines ==
    { <<" ", "\t">>,
      <<"garbage">> }
InputLines == CommentLines \cup SectionLines \cup KeyValueLines \cup OtherLines

\* key and value of a key = value line, as the parser splits it
LineKey(l) == trim(split_once(trim(l), "=")[1][1])
LineValue(l) == trim(split_once(trim(l), "=")[1][2])

\* in state st, line l gives numeric key `key` of section `section` a value that
\* is no u16
BadNumber(st, l, section, key) ==
    /\ IsKeyValue(l)
    /\ st.current_section = <<section>>
    /\ LineKey(l) = <<key>>
    /\ parse_u16(LineValue(l)) = None

PeerCount(st) == Len(st.peers) + (IF st.current_peer # None THEN 1 ELSE 0)

\* ------------------------------------------------------------------ Init
Callers == {1, 2}

ParserInit ==
    /\ pst = ParseStart
    /\ hdr_ctx = "start"
    /\ iface_kv = FALSE
    /\ lenient = "no"
    /\ pst2 = ParseStart
    /\ ins = "no"

StoreIdle ==
    /\ bak = None
    /\ pc = [p \in Callers |-> "idle"]
    /\ op = [p \in Callers |-> [cmd |-> "none"]]
    /\ cfg = [p \in Callers |-> None]
    /\ ret = [p \in Callers |-> "none"]
    /\ calls = [p \in Callers |-> 0]
    /\ snap = [p \in Callers |-> None]
    /\ quiet = [p \in Callers |-> TRUE]
    /\ race = "none"
    /\ last_writer = 0

\* the parser specifications start with no file at all
ParseInit ==
    ParserInit /\ StoreIdle /\ file = None /\ input = <<>> /\ pool = "any"

\* --------------------------------------------- the loop, one line per step
\* the loop body on line l, with the history of what was read
ParseStep(l) ==
    /\ IsSection(l) /\ SectionName(l) = <<"Peer">> => PeerCount(pst) < MaxPeers
    /\ pst' = ParseLine(pst, l)
    /\ hdr_ctx' = IF IsComment(l) THEN "comment"
                  ELSE IF IsSection(l) /\ SectionName(l) # <<"Peer">> THEN "nonpeer"
                  ELSE hdr_ctx
    /\ iface_kv' = (iface_kv \/ (IsKeyValue(l) /\ pst.current_section = <<"Interface">>))
    /\ lenient' = IF BadNumber(pst, l, "Interface", "ListenPort") THEN "ListenPort"
                  ELSE IF BadNumber(pst, l, "Peer", "PersistentKeepalive")
                  THEN "PersistentKeepalive"
                  ELSE "no"

ReadComment == \E l \in CommentLines : ParseStep(l) /\ UNCHANGED <<tvars, svars, xvars>>
ReadSection == \E l \in SectionLines : ParseStep(l) /\ UNCHANGED <<tvars, svars, xvars>>
ReadKeyValue == \E l \in KeyValueLines : ParseStep(l) /\ UNCHANGED <<tvars, svars, xvars>>
ReadOther == \E l \in OtherLines : ParseStep(l) /\ UNCHANGED <<tvars, svars, xvars>>

ParseNext == ReadComment \/ ReadSection \/ ReadKeyValue \/ ReadOther

SpecParse == ParseInit /\ [][ParseNext]_vars

\* ---------------------- two parses of one input, one with an inserted line
\* both parses read line l
ReadBoth ==
    \E l \in InputLines :
        /\ IsSection(l) /\ SectionName(l) = <<"Peer">> => PeerCount(pst) < MaxTwinPeers
        /\ pst' = ParseLine(pst, l)
        /\ pst2' = ParseLine(pst2, l)
        /\ UNCHANGED <<hdr_ctx, iface_kv, lenient, ins, svars, xvars>>

\* the second parse alone reads an unknown-key line inside [Interface] or [Peer]
InsertUnknownKey ==
    \E l \in UnknownKeyLines :
        /\ ins = "no"
        /\ pst2.current_section \in {<<"Interface">>, <<"Peer">>}
        /\ pst2' = ParseLine(pst2, l)
        /\ ins' = pst2.current_section[1]
        /\ UNCHANGED <<pvars, svars, xvars>>

InsertNext == ReadBoth \/ InsertUnknownKey

SpecInsert == ParseInit /\ [][InsertNext]_vars

\* ------------------- a parse whose whole input is kept, over a line family
\* the lines of each family; a parse draws all its lines from one family
InterfaceFamily ==
    { <<"[", "Interface", "]">>,
      <<"[", "Peer", "]">>,
      <<"PrivateKey", " ", "=", " ", "p1">>,
      <<"PrivateKey", "=", "p2">>,
      <<"DNS", " ", "=", " ", "dns1">>,
      <<"ListenPort", " ", "=", " ", "7">> }
PeerFamily ==
    { <<"[", "Peer", "]">>,
      <<"[", "Interface", "]">>,
      <<"[", "Foo", "]">>,
      <<"PublicKey", " ", "=", " ", "k1">>,
      <<"PublicKey", " ", "=", " ", "k2">>,
      <<"PersistentKeepalive", " ", "=", " ", "2", "5">> }
CommentFamily ==
    { <<"#", " ", "alice">>,
      <<"#", "#", "bob">>,
      <<"[", "Peer", "]">>,
      <<"[", "Interface", "]">>,
      <<"PublicKey", " ", "=", " ", "k1">>,
      <<" ">> }
ContextFamily ==
    { <<"PrivateKey", " ", "=", " ", "p1">>,
      <<"PublicKey", " ", "=", " ", "k1">>,
      <<"[", "Foo", "]">>,
      <<"[", "Interface", "]">>,
      <<"[", "Peer", "]">> }
PoolIds == {"interface", "peers", "comments", "context"}
TextPool(id) ==
    CASE id = "interface" -> InterfaceFamily
      [] id = "peers" -> PeerFamily
      [] id = "comments" -> CommentFamily
      [] id = "context" -> ContextFamily

TextInit ==
    ParserInit /\ StoreIdle /\ file = None /\ input = <<>> /\ pool \in PoolIds

\* the loop reads the next line of the input
ReadText ==
    \E l \in TextPool(pool) :
        /\ Len(input) < MaxLines
        /\ pst' = ParseLine(pst, l)
        /\ input' = Append(input, l)
        /\ UNCHANGED <<hdr_ctx, iface_kv, lenient, tvars, svars, pool>>

TextNext == ReadText

SpecText == TextInit /\ [][TextNext]_vars


\* ------------------------------------------------ the peer commands (lib.rs)
\* push_peer that leaves the list alone when a peer already has the key
push_peer_unique(config, peer) ==
    IF \E i \in 1..Len(config.peers) : config.peers[i].public_key = peer.public_key
    THEN config
    ELSE [config EXCEPT !.peers = Append(@, peer)]

\* config.peers.push(peer)
push_peer(config, peer) == [config EXCEPT !.peers = Append(@, peer)]

\* config.peers.iter_mut().find(|p| p.public_key == public_key): its index, or 0
find_peer(config, public_key) ==
    IF \E i \in 1..Len(config.peers) : config.peers[i].public_key = public_key
    THEN CHOOSE i \in 1..Len(config.peers) :
            /\ config.peers[i].public_key = public_key
            /\ \A j \in 1..(i - 1) : config.peers[j].public_key # public_key
    ELSE 0

\* replace_peer that overwrites every peer with the key
replace_every_peer(config, public_key, updated_peer) ==
    [config EXCEPT !.peers =
        [i \in 1..Len(@) |-> IF @[i].public_key = public_key
                             THEN updated_peer ELSE @[i]]]

\* *peer = updated_peer, on the peer found
replace_peer(config, public_key, updated_peer) ==
    [config EXCEPT !.peers[find_peer(config, public_key)] = updated_peer]

\* retain_peers that removes the first peer with the key only
remove_first_peer(config, public_key) ==
    LET i == find_peer(config, public_key)
    IN  IF i = 0 THEN config
        ELSE [config EXCEPT !.peers =
                SubSeq(@, 1, i - 1) \o SubSeq(@, i + 1, Len(@))]

\* config.peers.retain(|p| p.public_key != public_key)
retain_peers(config, public_key) ==
    [config EXCEPT !.peers = SelectSeq(@, LAMBDA q : q.public_key # public_key)]

\* parse_config on the file as it is now
parse_config ==
    IF file = None THEN Err("NotFound")
    ELSE parse_config_content(CfgName, CfgPath, file[1])

\* ------------------------------------------------------ the callers' inputs
PeerX ==
    [public_key |-> <<"k1">>, allowed_ips |-> <<"a9">>,
     persistent_keepalive |-> Some(7), endpoint |-> None, name |-> Some(<<"x">>)]
\* a peer whose name begins with a space
PeerY ==
    [public_key |-> <<"k1">>, allowed_ips |-> <<"a8">>,
     persistent_keepalive |-> None, endpoint |-> Some(<<"h2">>),
     name |-> Some(<<" ", "y">>)]
PeerInputs == IF pool = "raw" THEN {PeerY} ELSE {PeerX}
\* k1 names two peers of FileDup, k3 names none
KeyInputs == {<<"k1">>, <<"k3">>}
\* a peer with no optional field, and one with all of them
PeerBare ==
    [public_key |-> <<"k5">>, allowed_ips |-> <<>>,
     persistent_keepalive |-> None, endpoint |-> None, name |-> None]
PeerFull ==
    [public_key |-> <<"k6">>, allowed_ips |-> <<"a6">>,
     persistent_keepalive |-> Some(0), endpoint |-> Some(<<"h6">>),
     name |-> Some(<<"zed">>)]
\* a config with an empty private key, the default port and every optional
\* Interface field present
ConfigFull ==
    WgConfig(CfgName, CfgPath,
             [NewInterface EXCEPT !.address = <<"ad6">>, !.dns = Some(<<"dns6">>),
                                  !.post_up = Some(<<"up6">>),
                                  !.post_down = Some(<<"down6">>)],
             <<PeerBare, PeerFull>>)
ConfigInputs ==
    IF pool = "raw" THEN {ConfigFull}
    ELSE { WgConfig(CfgName, CfgPath,
                    [NewInterface EXCEPT !.private_key = <<"priv2">>], <<PeerX>>) }

\* a hand-written file: a comment above [Interface], an unknown key, uneven
\* spacing, three peers of which the first and the last share the key k1
FileDup ==
    <<"#", " ", "home", NL,
      "[", "Interface", "]", NL,
      "PrivateKey", " ", "=", " ", "priv", NL,
      "Address", "=", "10.0.0.1/24", NL,
      "MTU", " ", "=", " ", "1", "4", "2", "0", NL,
      "#", " ", "alice", NL,
      "[", "Peer", "]", NL,
      "PublicKey", " ", "=", " ", "k1", NL,
      "AllowedIPs", " ", "=", " ", "a1", NL,
      NL,
      "[", "Peer", "]", NL,
      "PublicKey", " ", "=", " ", "k2", NL,
      "AllowedIPs", " ", "=", " ", "a2", NL,
      "PersistentKeepalive", " ", "=", " ", "2", "5", CR, NL,
      "#", "alice2", NL,
      "[", "Peer", "]", NL,
      "PublicKey", " ", "=", " ", "k1", NL,
      "AllowedIPs", " ", "=", " ", "a3", NL,
      "Endpoint", " ", "=", " ", "h", ":", "5", "1", NL>>

\* a file with a peer and no [Interface] section
FilePeersOnly ==
    <<"[", "Peer", "]", NL,
      "PublicKey", " ", "=", " ", "k1", NL>>

InitialFiles == {None, Some(FileDup), Some(FilePeersOnly)}

Init ==
    /\ ParserInit
    /\ StoreIdle
    /\ file \in InitialFiles
    /\ input = <<>>
    /\ pool = "any"

\* ------------------------------------------------------------- the commands
Other(p) == CHOOSE q \in Callers : q # p
Mutating(o) == o.cmd \in {"add_peer", "update_peer", "delete_peer"}
InSave(p) == pc[p] \in {"exists", "copy", "write"}
TotalCalls == calls[1] + calls[2]

\* caller p invokes command o
Invoke(p, o) ==
    /\ pc[p] = "idle"
    /\ TotalCalls < MaxCalls
    /\ op' = [op EXCEPT ![p] = o]
    /\ calls' = [calls EXCEPT ![p] = @ + 1]
    /\ snap' = [snap EXCEPT ![p] = IF Mutating(o) THEN file ELSE None]
    /\ race' = "none"

\* the command returns the error e without having entered save_config
ReturnErr(p, e) ==
    /\ pc' = [pc EXCEPT ![p] = "idle"]
    /\ ret' = [ret EXCEPT ![p] = e]
    /\ cfg' = [cfg EXCEPT ![p] = None]

\* the command enters save_config(&config)
EnterSave(p, config) ==
    /\ pc' = [pc EXCEPT ![p] = "exists"]
    /\ ret' = [ret EXCEPT ![p] = "none"]
    /\ cfg' = [cfg EXCEPT ![p] = Some(config)]

\* add_peer up to its call of save_config
AddPeer(p) ==
    \E peer \in PeerInputs :
        /\ Invoke(p, [cmd |-> "add_peer", peer |-> peer])
        /\ IF parse_config.ok
           THEN EnterSave(p, push_peer(parse_config.value, peer))
           ELSE ReturnErr(p, parse_config.error)
        /\ UNCHANGED <<file, bak, quiet, last_writer, pvars, tvars, xvars>>

\* UpdatePeer that adds the peer when no peer has the key
UpdatePeerUpsert(p) ==
    \E public_key \in KeyInputs, peer \in PeerInputs :
        /\ Invoke(p, [cmd |-> "update_peer", public_key |-> public_key, peer |-> peer])
        /\ IF ~parse_config.ok THEN ReturnErr(p, parse_config.error)
           ELSE IF find_peer(parse_config.value, public_key) # 0
           THEN EnterSave(p, replace_peer(parse_config.value, public_key, peer))
           ELSE EnterSave(p, push_peer(parse_config.value, peer))
        /\ UNCHANGED <<file, bak, quiet, last_writer, pvars, tvars, xvars>>

\* update_peer up to its call of save_config, or to its Err("Peer not found")
UpdatePeer(p) ==
    \E public_key \in KeyInputs, peer \in PeerInputs :
        /\ Invoke(p, [cmd |-> "update_peer", public_key |-> public_key, peer |-> peer])
        /\ IF ~parse_config.ok THEN ReturnErr(p, parse_config.error)
           ELSE IF find_peer(parse_config.value, public_key) # 0
           THEN EnterSave(p, replace_peer(parse_config.value, public_key, peer))
           ELSE ReturnErr(p, "PeerNotFound")
        /\ UNCHANGED <<file, bak, quiet, last_writer, pvars, tvars, xvars>>

\* DeletePeer that returns "Peer not found" when no peer has the key
DeletePeerStrict(p) ==
    \E public_key \in KeyInputs :
        /\ Invoke(p, [cmd |-> "delete_peer", public_key |-> public_key])
        /\ IF ~parse_config.ok THEN ReturnErr(p, parse_config.error)
           ELSE IF find_peer(parse_config.value, public_key) # 0
           THEN EnterSave(p, retain_peers(parse_config.value, public_key))
           ELSE ReturnErr(p, "PeerNotFound")
        /\ UNCHANGED <<file, bak, quiet, last_writer, pvars, tvars, xvars>>

\* delete_peer up to its call of save_config
DeletePeer(p) ==
    \E public_key \in KeyInputs :
        /\ Invoke(p, [cmd |-> "delete_peer", public_key |-> public_key])
        /\ IF parse_config.ok
           THEN EnterSave(p, retain_peers(parse_config.value, public_key))
           ELSE ReturnErr(p, parse_config.error)
        /\ UNCHANGED <<file, bak, quiet, last_writer, pvars, tvars, xvars>>

\* a mutating command whose fs::read_to_string fails
ReadFail(p) ==
    \E o \in {[cmd |-> "add_peer", peer |-> q] : q \in PeerInputs}
             \cup {[cmd |-> "update_peer", public_key |-> k, peer |-> q] :
                        k \in KeyInputs, q \in PeerInputs}
             \cup {[cmd |-> "delete_peer", public_key |-> k] : k \in KeyInputs} :
        /\ file # None
        /\ Invoke(p, o)
        /\ ReturnErr(p, "Io")
        /\ UNCHANGED <<file, bak, quiet, last_writer, pvars, tvars, xvars>>

\* save_wireguard_config: save_config on the caller's own config
SaveWireguardConfig(p) ==
    \E config \in ConfigInputs :
        /\ Invoke(p, [cmd |-> "save_wireguard_config", config |-> config])
        /\ EnterSave(p, config)
        /\ UNCHANGED <<file, bak, quiet, last_writer, pvars, tvars, xvars>>

\* ------------------------------------------------------------- save_config
\* if config.path.exists()
SaveExists(p) ==
    /\ pc[p] = "exists"
    /\ pc' = [pc EXCEPT ![p] = IF file # None THEN "copy" ELSE "write"]
    /\ quiet' = [quiet EXCEPT ![p] = TRUE]
    /\ UNCHANGED <<file, bak, op, cfg, ret, calls, snap, race, last_writer, pvars, tvars, xvars>>

\* SaveCopy that copies nothing
SaveCopySkip(p) ==
    /\ pc[p] = "copy"
    /\ pc' = [pc EXCEPT ![p] = "write"]
    /\ UNCHANGED <<file, bak, op, cfg, ret, calls, snap, quiet, race, last_writer, pvars, tvars, xvars>>

\* fs::copy(&config.path, backup_path)? succeeds
SaveCopy(p) ==
    /\ pc[p] = "copy"
    /\ bak' = file
    /\ pc' = [pc EXCEPT ![p] = "write"]
    /\ UNCHANGED <<file, op, cfg, ret, calls, snap, quiet, race, last_writer, pvars, tvars, xvars>>

\* SaveCopyFail that drops the error of fs::copy and goes on to fs::write
SaveCopyFailIgnored(p) ==
    /\ pc[p] = "copy"
    /\ pc' = [pc EXCEPT ![p] = "write"]
    /\ UNCHANGED <<file, bak, op, cfg, ret, calls, snap, quiet, race, last_writer, pvars, tvars, xvars>>

\* fs::copy fails: the ? returns the error before fs::write
SaveCopyFail(p) ==
    /\ pc[p] = "copy"
    /\ pc' = [pc EXCEPT ![p] = "idle"]
    /\ ret' = [ret EXCEPT ![p] = "Io"]
    /\ UNCHANGED <<file, bak, op, cfg, calls, snap, quiet, race, last_writer, pvars, tvars, xvars>>

\* SaveWrite that leaves the file alone when another caller has written it
\* since this save tested path.exists()
SaveWriteGuarded(p) ==
    /\ pc[p] = "write"
    /\ file' = IF quiet[p] THEN Some(serialize_config(cfg[p][1])) ELSE file
    /\ pc' = [pc EXCEPT ![p] = "idle"]
    /\ ret' = [ret EXCEPT ![p] = "Ok"]
    /\ last_writer' = p
    /\ quiet' = [q \in Callers |-> IF q = p THEN quiet[q] ELSE FALSE]
    /\ race' = IF race = "open" /\ last_writer = Other(p) THEN "closed"
               ELSE IF InSave(Other(p)) /\ Mutating(op[p]) /\ Mutating(op[Other(p)])
               THEN "open"
               ELSE "none"
    /\ UNCHANGED <<bak, op, cfg, calls, snap, pvars, tvars, xvars>>

\* fs::write(&config.path, content)? succeeds and the command returns Ok
SaveWrite(p) ==
    /\ pc[p] = "write"
    /\ file' = Some(serialize_config(cfg[p][1]))
    /\ pc' = [pc EXCEPT ![p] = "idle"]
    /\ ret' = [ret EXCEPT ![p] = "Ok"]
    /\ last_writer' = p
    /\ quiet' = [q \in Callers |-> IF q = p THEN quiet[q] ELSE FALSE]
    /\ race' = IF race = "open" /\ last_writer = Other(p) THEN "closed"
               ELSE IF InSave(Other(p)) /\ Mutating(op[p]) /\ Mutating(op[Other(p)])
               THEN "open"
               ELSE "none"
    /\ UNCHANGED <<bak, op, cfg, calls, snap, pvars, tvars, xvars>>

\* fs::write fails: either the file could not be opened and is as it was, or it
\* was opened, which truncates it, and nothing was written
SaveWriteFail(p) ==
    /\ pc[p] = "write"
    /\ \/ UNCHANGED <<file, quiet, last_writer>>
       \/ /\ file' = Some(<<>>)
          /\ last_writer' = 0
          /\ quiet' = [q \in Callers |-> IF q = p THEN quiet[q] ELSE FALSE]
    /\ pc' = [pc EXCEPT ![p] = "idle"]
    /\ ret' = [ret EXCEPT ![p] = "Io"]
    /\ UNCHANGED <<bak, op, cfg, calls, snap, race, pvars, tvars, xvars>>

Next ==
    \E p \in Callers :
        \/ AddPeer(p)
        \/ UpdatePeer(p)
        \/ DeletePeer(p)
        \/ ReadFail(p)
        \/ SaveWireguardConfig(p)
        \/ SaveExists(p)
        \/ SaveCopy(p)
        \/ SaveCopyFail(p)
        \/ SaveWrite(p)
        \/ SaveWriteFail(p)

Spec == Init /\ [][Next]_vars

\* the store over the hand-written file, with the unpolished caller inputs
RawInit ==
    /\ ParserInit
    /\ StoreIdle
    /\ file = Some(FileDup)
    /\ input = <<>>
    /\ pool = "raw"

SpecRaw == RawInit /\ [][Next]_vars


\* ================================================================== claims
\* what parse_config_content returns after the lines read so far
Outcome(st) == ParseFinish(st, CfgName, CfgPath)

\* the config parse_config loaded for caller p's command
Loaded(p) == parse_config_content(CfgName, CfgPath, snap[p][1]).value

\* caller p's fs::write succeeds in this step
WriteDone(p) == pc[p] = "write" /\ pc'[p] = "idle" /\ ret'[p] = "Ok"

\* C1: whenever the parse of the lines read so far succeeds with config C,
\* parsing serialize_config(C) under the same name and path succeeds and
\* returns C, field for field.
C1_RoundTrip ==
    Outcome(pst).ok =>
        parse_config_content(CfgName, CfgPath, serialize_config(Outcome(pst).value))
            = Outcome(pst)

\* a successful parse of two peers in which a value holds '=', values are
\* empty, and optional fields are present in one place and absent in another
C1_Witness ==
    /\ Outcome(pst).ok
    /\ Len(Outcome(pst).value.peers) = 2
    /\ Outcome(pst).value.interface.private_key = <<"a", "=", "b">>
    /\ Outcome(pst).value.interface.address = <<>>
    /\ Outcome(pst).value.interface.listen_port = 65535
    /\ Outcome(pst).value.interface.dns # None
    /\ Outcome(pst).value.peers[1].name # None
    /\ Outcome(pst).value.peers[1].persistent_keepalive = None
    /\ Outcome(pst).value.peers[2].name = None
    /\ Outcome(pst).value.peers[2].persistent_keepalive # None
    /\ Outcome(pst).value.peers[2].public_key = <<>>

\* C2: a comment line read before a section header other than [Peer] is
\* discarded: a [Peer] header read when no comment line has been read since
\* that header opens a peer without a name.
C2_StaleCommentDiscarded ==
    [][(PeerCount(pst') = PeerCount(pst) + 1 /\ hdr_ctx = "nonpeer")
            => pst'.current_peer[1].name = None]_vars

\* C3: when two mutating callers have both read the file before either wrote
\* it and both have written, the file is the serialization of the config of the
\* caller that wrote last, which is that caller's change applied to what it had
\* read: the other caller's change is not in it.
C3_LastWriterWins ==
    race = "closed" =>
        /\ last_writer \in Callers
        /\ file = Some(serialize_config(cfg[last_writer][1]))
        /\ cfg[last_writer][1] =
            (IF op[last_writer].cmd = "add_peer"
             THEN push_peer(Loaded(last_writer), op[last_writer].peer)
             ELSE IF op[last_writer].cmd = "update_peer"
             THEN replace_peer(Loaded(last_writer), op[last_writer].public_key,
                               op[last_writer].peer)
             ELSE retain_peers(Loaded(last_writer), op[last_writer].public_key))

\* both callers read the same text, made different configs of it, and both
\* saved: the file holds the second writer's config only
C3_Witness ==
    /\ race = "closed"
    /\ ret[1] = "Ok" /\ ret[2] = "Ok"
    /\ snap[1] = snap[2]
    /\ cfg[1] # cfg[2]
    /\ file # Some(serialize_config(cfg[Other(last_writer)][1]))

\* C4: update_peer with a key some loaded peer has replaces the first such peer
\* in place by the new peer and leaves every other peer, the length of the list
\* and the interface as loaded; what it returns is what it saved.
C4_UpdateFirstOnly ==
    \A p \in Callers :
        (op[p].cmd = "update_peer" /\ cfg[p] # None) =>
            LET old == Loaded(p).peers
                new == cfg[p][1].peers
            IN  /\ Len(new) = Len(old)
                /\ \E i \in 1..Len(old) :
                    /\ old[i].public_key = op[p].public_key
                    /\ \A j \in 1..(i - 1) : old[j].public_key # op[p].public_key
                    /\ new[i] = op[p].peer
                    /\ \A j \in (1..Len(old)) \ {i} : new[j] = old[j]
                /\ cfg[p][1].interface = Loaded(p).interface
                /\ (ret[p] = "Ok" /\ last_writer = p)
                        => file = Some(serialize_config(cfg[p][1]))

\* update_peer(k1, x) on the file whose first and third peer both have key k1
\* has returned: the third peer still is the loaded one
C4_Witness ==
    \E p \in Callers :
        /\ op[p].cmd = "update_peer" /\ ret[p] = "Ok" /\ last_writer = p
        /\ snap[p] = Some(FileDup)
        /\ Len(cfg[p][1].peers) = 3
        /\ cfg[p][1].peers[1] = PeerX
        /\ cfg[p][1].peers[3].public_key = <<"k1">>
        /\ cfg[p][1].peers[3] # PeerX

\* s without the peers that have the key, in the order of s
RECURSIVE WithoutKey(_, _)
WithoutKey(s, key) ==
    IF s = <<>> THEN <<>>
    ELSE IF Head(s).public_key = key THEN WithoutKey(Tail(s), key)
    ELSE <<Head(s)>> \o WithoutKey(Tail(s), key)

\* C5: delete_peer leaves no peer with the key; what is left are the loaded
\* peers with another key, in their order; what it returns is what it saved.
C5_DeleteAll ==
    \A p \in Callers :
        (op[p].cmd = "delete_peer" /\ cfg[p] # None) =>
            /\ \A i \in 1..Len(cfg[p][1].peers) :
                    cfg[p][1].peers[i].public_key # op[p].public_key
            /\ cfg[p][1].peers = WithoutKey(Loaded(p).peers, op[p].public_key)
            /\ cfg[p][1].interface = Loaded(p).interface
            /\ (ret[p] = "Ok" /\ last_writer = p)
                    => file = Some(serialize_config(cfg[p][1]))

\* delete_peer(k1) on the file with two peers of key k1 has returned one peer
C5_Witness ==
    \E p \in Callers :
        /\ op[p].cmd = "delete_peer" /\ ret[p] = "Ok" /\ last_writer = p
        /\ snap[p] = Some(FileDup)
        /\ op[p].public_key = <<"k1">>
        /\ Len(cfg[p][1].peers) = 1
        /\ cfg[p][1].peers[1].public_key = <<"k2">>

\* C6: an update_peer whose key no peer of the loaded config has returns the
\* peer-not-found error in the step that loaded the config, without entering
\* save_config: the file and the .bak file are as before the call.
C6_NotFoundNoSave ==
    [][\A p \in Callers :
        (/\ calls'[p] = calls[p] + 1
         /\ op'[p].cmd = "update_peer"
         /\ ret'[p] # "Io"
         /\ parse_config.ok
         /\ \A i \in 1..Len(parse_config.value.peers) :
                parse_config.value.peers[i].public_key # op'[p].public_key)
        => (/\ ret'[p] = "PeerNotFound"
            /\ pc'[p] = "idle"
            /\ file' = file
            /\ bak' = bak)]_vars

\* update_peer(k3, x) on the file with keys k1, k2, k1 has failed
C6_Witness ==
    \E p \in Callers :
        /\ op[p].cmd = "update_peer" /\ op[p].public_key = <<"k3">>
        /\ ret[p] = "PeerNotFound" /\ pc[p] = "idle"
        /\ file = Some(FileDup) /\ bak = None

\* C7: the parse fails, with the missing-interface error, exactly when no
\* key = value line was read while the section was Interface.
C7_MissingInterface ==
    /\ ~iface_kv => Outcome(pst) = Err("Parse")
    /\ iface_kv => Outcome(pst).ok

\* a [Peer] section and then an [Interface] header with nothing after it
C7_Witness ==
    /\ Outcome(pst) = Err("Parse")
    /\ Len(pst.peers) >= 1
    /\ pst.current_section = <<"Interface">>

\* a ListenPort line with a value that is a u16
GoodPortLine == <<"ListenPort", " ", "=", " ", "6", "5", "5", "3", "5">>
\* a PersistentKeepalive line with a value that is a u16
GoodKeepaliveLine == <<"PersistentKeepalive", " ", "=", " ", "2", "5">>

\* the input lines that give ListenPort a value that is no u16
BadPortLines ==
    {l \in KeyValueLines : LineKey(l) = <<"ListenPort">> /\ parse_u16(LineValue(l)) = None}
\* the input lines that give PersistentKeepalive a value that is no u16
BadKeepaliveLines ==
    {l \in KeyValueLines :
        LineKey(l) = <<"PersistentKeepalive">> /\ parse_u16(LineValue(l)) = None}

\* C8: a ListenPort line whose value is no u16 makes listen_port 51820, a
\* PersistentKeepalive line whose value is no u16 makes persistent_keepalive
\* absent; everything else is as a line with a valid value leaves it, and the
\* parse goes on.
C8_LenientNumbers ==
    [][/\ pst.current_section = <<"Interface">> =>
            \A l \in BadPortLines :
                pst' = ParseLine(pst, l) =>
                    /\ pst'.interface # None
                    /\ pst'.interface[1].listen_port = 51820
                    /\ pst' = [ParseLine(pst, GoodPortLine)
                                EXCEPT !.interface[1].listen_port = 51820]
       /\ pst.current_section = <<"Peer">> =>
            \A l \in BadKeepaliveLines :
                pst' = ParseLine(pst, l) =>
                    /\ pst'.current_peer # None
                    /\ pst'.current_peer[1].persistent_keepalive = None
                    /\ pst' = [ParseLine(pst, GoodKeepaliveLine)
                                EXCEPT !.current_peer[1].persistent_keepalive = None]
      ]_vars

\* the line read last was a ListenPort line with a bad value, read after the
\* port had been set and a peer with a bad keepalive had been closed
C8_Witness ==
    /\ lenient = "ListenPort"
    /\ pst.interface[1].listen_port = 51820
    /\ pst.interface[1].private_key = <<"a", "=", "b">>
    /\ Len(pst.peers) = 1
    /\ pst.peers[1].public_key = <<"k1">>
    /\ pst.peers[1].persistent_keepalive = None
    /\ Outcome(pst).ok

\* C9 as claimed, for the commands that loaded the file before they save it
\* (so the file exists when save_config begins): after every successful write
\* of save_config over the existing file, the .bak file holds what the file
\* held right before that write.
C9_BackupHoldsPrevious ==
    [][\A p \in Callers :
        (WriteDone(p) /\ Mutating(op[p]) /\ file # None) => bak' = file]_vars

\* C9 as amended: the same, for a save during which no other caller wrote the
\* file after the save's path.exists() test; and a save that finds no file goes
\* to the write without a backup and creates the file.
C9_BackupUnlessRaced ==
    [][\A p \in Callers :
        /\ (WriteDone(p) /\ quiet[p])
            => /\ file' = Some(serialize_config(cfg[p][1]))
               /\ (file # None => bak' = file)
               /\ (file = None => bak' = bak)
        /\ (pc[p] = "exists" /\ pc'[p] # "exists" /\ file = None)
            => (pc'[p] = "write" /\ bak' = bak /\ file' = file)
      ]_vars

\* a save over the hand-written file has returned: the .bak file holds that
\* file, the config file holds the new serialization
C9_Witness ==
    \E p \in Callers :
        /\ ret[p] = "Ok" /\ last_writer = p /\ quiet[p]
        /\ bak = Some(FileDup)
        /\ file = Some(serialize_config(cfg[p][1]))
        /\ file # bak

\* C10 as claimed: one more line with an unknown key inside [Interface] or
\* [Peer] never changes what the parse returns.
C10_UnknownKeyNoEffect ==
    ins # "no" => Outcome(pst2) = Outcome(pst)

\* C10 as amended: the line changes nothing inside [Peer], and nothing inside
\* [Interface] when the input has a key = value line in section Interface
\* anyway; when it has none, the parse that fails without the line succeeds
\* with it, with the default Interface and the same peers.
C10_UnknownKeyCreatesInterface ==
    ins # "no" =>
        /\ pst2.peers = pst.peers
        /\ pst2.current_peer = pst.current_peer
        /\ (ins = "Peer" \/ pst.interface # None) => Outcome(pst2) = Outcome(pst)
        /\ (ins = "Interface" /\ pst.interface = None) =>
            /\ Outcome(pst) = Err("Parse")
            /\ Outcome(pst2).ok
            /\ Outcome(pst2).value.interface = NewInterface
            /\ Outcome(pst2).value.peers =
                Outcome([pst EXCEPT !.interface = Some(NewInterface)]).value.peers

\* the line was inserted in an [Interface] section with no other key: the parse
\* with it succeeds and has a peer, the parse without it fails
C10_Witness ==
    /\ ins = "Interface"
    /\ ~Outcome(pst).ok
    /\ Outcome(pst2).ok
    /\ Len(Outcome(pst2).value.peers) = 1
    /\ Outcome(pst2).value.peers[1].name # None

\* ------------------------------------------------ reading the kept input
\* the section in effect when line i of ls is read: the name in the last
\* section header before it, empty before the first header
SectionAt(ls, i) ==
    LET hs == {j \in 1..(i - 1) : IsSection(ls[j])}
    IN  IF hs = {} THEN <<>>
        ELSE SectionName(ls[CHOOSE j \in hs : \A k \in hs : k <= j])

\* the key = value lines of ls with the key, read in the section
KeyLinesIn(ls, section, key) ==
    {i \in 1..Len(ls) : /\ IsKeyValue(ls[i])
                        /\ SectionAt(ls, i) = section
                        /\ LineKey(ls[i]) = key}

\* the value of the last of the lines idx of ls, or none
LastValueOf(ls, idx) ==
    IF idx = {} THEN None
    ELSE Some(LineValue(ls[CHOOSE i \in idx : \A k \in idx : k <= i]))

\* the [Interface] header lines of ls
InterfaceHeaders(ls) ==
    {i \in 1..Len(ls) : IsSection(ls[i]) /\ SectionName(ls[i]) = <<"Interface">>}

\* C11: there is one Interface however many [Interface] sections the input
\* has: each of its fields holds the value of the last line with that key in
\* any [Interface] section, and its default when no such line exists; a later
\* section overwrites the keys it gives and resets none of the others.
C11_OneInterface ==
    pool = "interface" /\ pst.interface # None =>
        LET iface == pst.interface[1]
            last(key) == LastValueOf(input, KeyLinesIn(input, <<"Interface">>, key))
        IN  /\ iface.private_key =
                   (IF last(<<"PrivateKey">>) = None THEN NewInterface.private_key
                    ELSE last(<<"PrivateKey">>)[1])
            /\ iface.dns = last(<<"DNS">>)
            /\ iface.listen_port =
                   (IF last(<<"ListenPort">>) = None THEN DEFAULT_LISTEN_PORT
                    ELSE parse_u16(last(<<"ListenPort">>)[1])[1])
            /\ iface.address = NewInterface.address
            /\ iface.post_up = None /\ iface.post_down = None

\* two [Interface] sections: the first gives PrivateKey and DNS, the second
\* PrivateKey only; the result has the second key and the first DNS
C11_Witness ==
    /\ input = << <<"[", "Interface", "]">>,
                  <<"PrivateKey", " ", "=", " ", "p1">>,
                  <<"DNS", " ", "=", " ", "dns1">>,
                  <<"[", "Interface", "]">>,
                  <<"PrivateKey", "=", "p2">> >>
    /\ Cardinality(InterfaceHeaders(input)) = 2
    /\ Outcome(pst).ok
    /\ Outcome(pst).value.interface.private_key = <<"p2">>
    /\ Outcome(pst).value.interface.dns = Some(<<"dns1">>)

\* C12: add_peer hands save_config the loaded config with the given peer
\* appended: every loaded peer is kept in place, the list is one longer, the
\* new peer is last, also when its key is already present; and once the save
\* of this caller is the last write, the file holds that config.
C12_AddAppends ==
    \A p \in Callers :
        (op[p].cmd = "add_peer" /\ cfg[p] # None) =>
            LET old == Loaded(p).peers
                new == cfg[p][1].peers
            IN  /\ Len(new) = Len(old) + 1
                /\ \A i \in 1..Len(old) : new[i] = old[i]
                /\ new[Len(new)] = op[p].peer
                /\ cfg[p][1].interface = Loaded(p).interface
                /\ (ret[p] = "Ok" /\ last_writer = p)
                        => file = Some(serialize_config(cfg[p][1]))

\* add_peer of a peer with key k1 on the file that has two peers with key k1
\* has returned: the file now has four peers, three of them with key k1
C12_Witness ==
    \E p \in Callers :
        /\ op[p].cmd = "add_peer" /\ ret[p] = "Ok" /\ last_writer = p
        /\ snap[p] = Some(FileDup)
        /\ op[p].peer.public_key = <<"k1">>
        /\ Len(cfg[p][1].peers) = 4
        /\ Cardinality({i \in 1..4 : cfg[p][1].peers[i].public_key = <<"k1">>}) = 3
        /\ file = Some(serialize_config(cfg[p][1]))

\* ------------------------------------------------ the text as a line list
\* the line "key = value"
TextLine(key, value) == <<key, " ", "=", " ">> \o value
\* that line when the field is present, no line otherwise
LineIfPresent(key, opt) == IF opt = None THEN <<>> ELSE <<TextLine(key, opt[1])>>

InterfaceLines(iface) ==
    << <<"[", "Interface", "]">>,
       TextLine("PrivateKey", iface.private_key),
       TextLine("Address", iface.address),
       TextLine("ListenPort", format_u16(iface.listen_port)) >>
    \o LineIfPresent("DNS", iface.dns)
    \o LineIfPresent("PostUp", iface.post_up)
    \o LineIfPresent("PostDown", iface.post_down)

PeerLines(peer) ==
    << <<>> >>
    \o (IF peer.name = None THEN <<>> ELSE << <<"#", " ">> \o peer.name[1] >>)
    \o << <<"[", "Peer", "]">>,
          TextLine("PublicKey", peer.public_key),
          TextLine("AllowedIPs", peer.allowed_ips) >>
    \o (IF peer.persistent_keepalive = None THEN <<>>
        ELSE <<TextLine("PersistentKeepalive", format_u16(peer.persistent_keepalive[1]))>>)
    \o LineIfPresent("Endpoint", peer.endpoint)

RECURSIVE AllPeerLines(_)
AllPeerLines(peers) ==
    IF peers = <<>> THEN <<>> ELSE PeerLines(Head(peers)) \o AllPeerLines(Tail(peers))

\* the text whose lines are ls, each ended by a newline
RECURSIVE JoinLines(_)
JoinLines(ls) == IF ls = <<>> THEN <<>> ELSE Head(ls) \o <<NL>> \o JoinLines(Tail(ls))

\* C13: for every config a command hands to save_config, serialize_config
\* yields a text, and that text is these lines in this order: [Interface],
\* PrivateKey, Address, ListenPort always; DNS, PostUp, PostDown when present;
\* then per peer in order a blank line, "# name" when present, [Peer],
\* PublicKey, AllowedIPs always, PersistentKeepalive and then Endpoint when
\* present.
C13_LineOrder ==
    \A p \in Callers :
        cfg[p] # None =>
            serialize_config(cfg[p][1]) =
                JoinLines(InterfaceLines(cfg[p][1].interface)
                          \o AllPeerLines(cfg[p][1].peers))

\* the config with an empty key, the default port, all optional Interface
\* fields, a peer with no optional field and a peer with all, has been written
C13_Witness ==
    \E p \in Callers :
        /\ cfg[p] = Some(ConfigFull) /\ ret[p] = "Ok" /\ last_writer = p
        /\ file = Some(<<"[", "Interface", "]", NL,
                         "PrivateKey", " ", "=", " ", NL,
                         "Address", " ", "=", " ", "ad6", NL,
                         "ListenPort", " ", "=", " ", "5", "1", "8", "2", "0", NL,
                         "DNS", " ", "=", " ", "dns6", NL,
                         "PostUp", " ", "=", " ", "up6", NL,
                         "PostDown", " ", "=", " ", "down6", NL,
                         NL,
                         "[", "Peer", "]", NL,
                         "PublicKey", " ", "=", " ", "k5", NL,
                         "AllowedIPs", " ", "=", " ", NL,
                         NL,
                         "#", " ", "zed", NL,
                         "[", "Peer", "]", NL,
                         "PublicKey", " ", "=", " ", "k6", NL,
                         "AllowedIPs", " ", "=", " ", "a6", NL,
                         "PersistentKeepalive", " ", "=", " ", "0", NL,
                         "Endpoint", " ", "=", " ", "h6", NL>>)

\* the section header lines of ls, and those that are [Peer]
Headers(ls) == {i \in 1..Len(ls) : IsSection(ls[i])}
PeerHeaders(ls) == {i \in Headers(ls) : SectionName(ls[i]) = <<"Peer">>}
\* the n-th [Peer] header line of ls
NthPeerHeader(ls, n) ==
    CHOOSE i \in PeerHeaders(ls) :
        Cardinality({j \in PeerHeaders(ls) : j <= i}) = n
\* the key = value lines of ls with the key whose nearest header above is line h
KeyLinesUnder(ls, h, key) ==
    {i \in (h + 1)..Len(ls) :
        /\ IsKeyValue(ls[i]) /\ LineKey(ls[i]) = key
        /\ \A j \in Headers(ls) : ~(h < j /\ j < i)}

\* C14: a successful parse has one peer per [Peer] header line, in file
\* order; the peers already in the list are those whose header is followed by
\* another header of any kind, the last one is closed at end of input; the
\* fields of each peer come from the lines between its header and the next
\* header only.
C14_OnePeerPerHeader ==
    Outcome(pst).ok =>
        LET peers == Outcome(pst).value.peers
            hs == PeerHeaders(input)
        IN  /\ Len(peers) = Cardinality(hs)
            /\ Len(pst.peers) =
                   Cardinality({h \in hs : \E j \in Headers(input) : j > h})
            /\ \A n \in 1..Len(peers) :
                   LET h == NthPeerHeader(input, n)
                       key == LastValueOf(input, KeyLinesUnder(input, h, <<"PublicKey">>))
                       alive == LastValueOf(input,
                                    KeyLinesUnder(input, h, <<"PersistentKeepalive">>))
                   IN  /\ peers[n].public_key = (IF key = None THEN <<>> ELSE key[1])
                       /\ peers[n].persistent_keepalive =
                              (IF alive = None THEN None ELSE parse_u16(alive[1]))
                       /\ peers[n].allowed_ips = <<>>
                       /\ peers[n].endpoint = None

\* a peer with key k1 closed by [Interface], a PublicKey line in that section,
\* and a second peer left open at end of input: two peers, the first still k1
C14_Witness ==
    /\ input = << <<"[", "Peer", "]">>,
                  <<"PublicKey", " ", "=", " ", "k1">>,
                  <<"[", "Interface", "]">>,
                  <<"PublicKey", " ", "=", " ", "k2">>,
                  <<"[", "Peer", "]">> >>
    /\ Outcome(pst).ok
    /\ Len(Outcome(pst).value.peers) = 2
    /\ Outcome(pst).value.peers[1].public_key = <<"k1">>
    /\ Outcome(pst).value.peers[2].public_key = <<>>

\* the peers a parse holds, the closed ones and then the open one
HeldPeers(st) ==
    st.peers \o (IF st.current_peer = None THEN <<>> ELSE <<st.current_peer[1]>>)
\* the text a comment line leaves as the pending comment
CommentText(raw) == OnComment(ParseStart, trim(raw)).last_comment[1]
\* the comment lines of ls strictly between lines lo and hi
CommentsBetween(ls, lo, hi) == {i \in (lo + 1)..(hi - 1) : IsComment(ls[i])}

\* C15: the name of the n-th peer is the text of the last comment line between
\* the previous [Peer] header (the start of the input for the first peer) and
\* its own header, and absent when there is no comment line there: of several
\* comment lines the last one counts, and a comment line above an earlier
\* [Peer] header names no later peer.
C15_LastCommentOnce ==
    LET peers == HeldPeers(pst)
    IN  /\ Len(peers) = Cardinality(PeerHeaders(input))
        /\ \A n \in 1..Len(peers) :
               LET h == NthPeerHeader(input, n)
                   prev == IF n = 1 THEN 0 ELSE NthPeerHeader(input, n - 1)
                   cs == CommentsBetween(input, prev, h)
               IN  peers[n].name =
                      (IF cs = {} THEN None
                       ELSE Some(CommentText(input[CHOOSE i \in cs : \A k \in cs : k <= i])))

\* two comment lines, then two [Peer] headers in a row: the first peer is named
\* by the second comment, the second peer has no name
C15_Witness ==
    /\ input = << <<"#", " ", "alice">>,
                  <<"#", "#", "bob">>,
                  <<"[", "Peer", "]">>,
                  <<"[", "Peer", "]">> >>
    /\ HeldPeers(pst)[1].name = Some(<<"bob">>)
    /\ HeldPeers(pst)[2].name = None

\* line i of ls is a key = value line read outside [Interface] and [Peer]
OutOfContext(ls, i) ==
    /\ IsKeyValue(ls[i])
    /\ SectionAt(ls, i) \notin {<<"Interface">>, <<"Peer">>}
\* ls without its key = value lines read outside [Interface] and [Peer]
RECURSIVE InContextFrom(_, _)
InContextFrom(ls, i) ==
    IF i > Len(ls) THEN <<>>
    ELSE (IF OutOfContext(ls, i) THEN <<>> ELSE <<ls[i]>>) \o InContextFrom(ls, i + 1)

\* C16: the key = value lines read before any section header or under a
\* header that is neither [Interface] nor [Peer] have no effect: the parse is
\* in the state it would be in had the input not had these lines.
C16_OutOfContextIgnored ==
    pst = ParseLines(ParseStart, InContextFrom(input, 1))

\* PrivateKey before any header, a peer closed by [Foo], PublicKey and
\* PrivateKey under [Foo]: no Interface record, and the peer has no key
C16_Witness ==
    /\ input = << <<"PrivateKey", " ", "=", " ", "p1">>,
                  <<"[", "Peer", "]">>,
                  <<"[", "Foo", "]">>,
                  <<"PublicKey", " ", "=", " ", "k1">>,
                  <<"PrivateKey", " ", "=", " ", "p1">> >>
    /\ \A i \in {1, 4, 5} : OutOfContext(input, i)
    /\ pst.interface = None
    /\ pst.peers = <<NewPeer(None)>>

\* the trimmed line without its first character and without one space after it
OneHashOneSpace(raw) ==
    LET rest == Tail(trim(raw))
    IN  IF starts_with(rest, " ") THEN Tail(rest) ELSE rest

\* C17: the pending comment after a comment line is the trimmed line with
\* its one leading '#' and at most one space after it removed, every further
\* '#' and space kept.
C17_OneHashStripped ==
    (Len(input) > 0 /\ IsComment(input[Len(input)])) =>
        pst.last_comment = Some(OneHashOneSpace(input[Len(input)]))

\* C18: a save that has found the file to exist leaves its copy step in one
\* of two ways: the backup now holds the file's content and the save goes on
\* to write, or the copy failed, the command returns the I/O error without
\* writing, and the file is as it was.
C18_CopyFailStopsSave ==
    [][\A p \in Callers :
        (pc[p] = "copy" /\ pc'[p] # "copy") =>
            \/ pc'[p] = "write" /\ bak' = file /\ file' = file
            \/ pc'[p] = "idle" /\ ret'[p] = "Io" /\ file' = file]_vars

\* a save on the hand-written file has failed in its copy: the command has
\* returned the I/O error, the file is untouched and there is no backup
C18_Witness ==
    \E p \in Callers :
        /\ pc[p] = "idle" /\ ret[p] = "Io" /\ cfg[p] # None
        /\ file = Some(FileDup)
        /\ file # Some(serialize_config(cfg[p][1]))
        /\ bak = None
        /\ last_writer = 0

\* C19: once add_peer or update_peer has returned a config to its caller
\* and no other write has followed, loading the file succeeds and returns
\* that config, field for field.
C19_ReadAfterWrite ==
    \A p \in Callers :
        (/\ op[p].cmd \in {"add_peer", "update_peer"}
         /\ pc[p] = "idle" /\ ret[p] = "Ok"
         /\ last_writer = p)
            => /\ parse_config.ok
               /\ parse_config.value = cfg[p][1]

\* no peer of the config has the key
KeyAbsent(config, public_key) ==
    \A i \in 1..Len(config.peers) : config.peers[i].public_key # public_key
\* caller p is in the save of a delete_peer whose key no loaded peer has
DeletingAbsent(p) ==
    /\ op[p].cmd = "delete_peer" /\ InSave(p)
    /\ KeyAbsent(Loaded(p), op[p].public_key)

\* C20: a delete_peer whose key matches no peer of the readable, parseable
\* file does not fail: it enters the save with the config as loaded; the save
\* finds the file, its copy step sets the backup to the file's content, and
\* its write step sets the file to the serialization of the loaded config and
\* the command returns success.
C20_DeleteAbsentSaves ==
    [][\A p \in Callers :
        /\ (/\ calls'[p] = calls[p] + 1
            /\ op'[p].cmd = "delete_peer"
            /\ ret'[p] # "Io"
            /\ parse_config.ok
            /\ KeyAbsent(parse_config.value, op'[p].public_key))
                => /\ pc'[p] = "exists"
                   /\ cfg'[p] = Some(parse_config.value)
        /\ (DeletingAbsent(p) /\ pc[p] = "exists" /\ pc'[p] # "exists")
                => pc'[p] = "copy"
        /\ (DeletingAbsent(p) /\ pc[p] = "copy" /\ pc'[p] = "write")
                => bak' = file /\ file' = file
        /\ (DeletingAbsent(p) /\ WriteDone(p))
                => /\ file' = Some(serialize_config(Loaded(p)))
                   /\ cfg'[p] = Some(Loaded(p))]_vars

\* delete_peer(k3) on the hand-written file, which has no peer k3, has
\* returned success: all three peers are there, the file is the serialization
\* of the loaded config, not the hand-written text, which is now the backup
C20_Witness ==
    \E p \in Callers :
        /\ op[p].cmd = "delete_peer" /\ op[p].public_key = <<"k3">>
        /\ pc[p] = "idle" /\ ret[p] = "Ok" /\ last_writer = p
        /\ snap[p] = Some(FileDup)
        /\ Len(cfg[p][1].peers) = 3
        /\ file = Some(serialize_config(Loaded(p)))
        /\ file # Some(FileDup)
        /\ bak = Some(FileDup)

====
